---- MODULE Spec2Model ----
(***************************************************************************)
(* Model of streamlit_trading_analyzer.py: the FIFO lot ledger            *)
(* (calculate_average_purchase_price), the price fetch                    *)
(* (fetch_current_prices) and the enrichment pipeline of main.            *)
(*                                                                         *)
(* Numbers.  The program computes on binary floats; the model computes on *)
(* exact decimals in fixed point:                                         *)
(*   quantities         integer multiples of 1/QtyUnit                    *)
(*   prices             integer multiples of 1/PriceUnit  (yen)           *)
(*   amounts            integer multiples of 1/AmountUnit (yen)           *)
(* round(x, n) is Python's round: to the nearest multiple of 10^-n, ties  *)
(* to even.                                                               *)
(*                                                                         *)
(* Column names: pair = '通貨ペア', side = '売/買', qty = '数量',           *)
(* price = '価格', amount = '取引金額'.                                     *)
(***************************************************************************)
EXTENDS Integers, Sequences, FiniteSets, TLC

VARIABLES
    df,                 \* the uploaded table, a sequence of rows
    pc,                 \* position of main
    pairs,              \* df['pair'].unique(), in order of first appearance
    k,                  \* position of the loop over pairs (line 14)
    pair_data,          \* rows of the current pair (line 15)
    idx,                \* position of the loop over pair_data (line 21)
    buys,               \* the lot queue (line 18)
    remaining_quantity, \* running balance (line 19)
    results,            \* pair -> summary
    current_prices,     \* pair -> fetched price or None
    f,                  \* position of the loop over pairs in fetch_current_prices
    error,              \* what main's except clause reported
    summary_df          \* rows of the summary table that was rendered

vars == <<df, pc, pairs, k, pair_data, idx, buys, remaining_quantity,
          results, current_prices, f, error, summary_df>>

-----------------------------------------------------------------------------
(* Bounds and units *)

MaxRows == 3

QtyUnit == 10
PriceUnit == 1000
AmountUnit == QtyUnit * PriceUnit

PriceDigits == 2
QtyDigits == 8

-----------------------------------------------------------------------------
(* Values *)

\* Python's None, and a present value
None == <<>>
Some(x) == <<x>>

\* a missing cell of the side column (pandas reads it as float nan)
NaN == "<nan>"

\* str.lower() on the side strings the model uses
Lower(s) ==
    CASE s = "Buy"  -> "buy"
      [] s = "BUY"  -> "buy"
      [] s = "Sell" -> "sell"
      [] s = "SELL" -> "sell"
      [] s = "Hold" -> "hold"
      [] s = "BTC_JPY" -> "btc_jpy"
      [] s = "ETH_JPY" -> "eth_jpy"
      [] OTHER -> s

\* str.upper() on the pair strings the model uses
Upper(s) ==
    CASE s = "btc_jpy" -> "BTC_JPY"
      [] s = "eth_jpy" -> "ETH_JPY"
      [] OTHER -> s

\* dict.get(key, default)
Get(stats, key, default) == IF key \in DOMAIN stats THEN stats[key] ELSE default

RECURSIVE Pow10(_)
Pow10(n) == IF n = 0 THEN 1 ELSE 10 * Pow10(n - 1)

\* nearest integer to num/den (den > 0), ties to even
RoundHalfEven(num, den) ==
    LET q == num \div den
        r == num - q * den
    IN  IF 2 * r < den THEN q
        ELSE IF 2 * r > den THEN q + 1
        ELSE IF q % 2 = 0 THEN q ELSE q + 1

\* round(num/den, digits) of a value counted in 1/unit; the result is counted
\* in 1/unit too.  When 1/unit is at least as coarse as 10^-digits and den = 1
\* the value is already a multiple of 10^-digits.
RoundQuot(num, den, unit, digits) ==
    IF unit % Pow10(digits) = 0
    THEN LET g == unit \div Pow10(digits) IN g * RoundHalfEven(num, den * g)
    ELSE RoundHalfEven(num, den)

Round(x, unit, digits) == RoundQuot(x, 1, unit, digits)

RECURSIVE SumQty(_)
SumQty(bs) == IF bs = <<>> THEN 0 ELSE bs[1].quantity + SumQty(Tail(bs))

RECURSIVE SumAmount(_)
SumAmount(bs) == IF bs = <<>> THEN 0 ELSE bs[1].amount + SumAmount(Tail(bs))

\* Series.unique(): distinct values in order of first appearance
RECURSIVE Unique(_)
Unique(s) ==
    IF s = <<>> THEN <<>>
    ELSE LET u == Unique(SubSeq(s, 1, Len(s) - 1))
             x == s[Len(s)]
         IN  IF \E i \in 1..Len(u) : u[i] = x THEN u ELSE Append(u, x)

PairColumn(d) == [i \in 1..Len(d) |-> d[i].pair]

\* dict[key] = v
Put(d, key, v) == [x \in DOMAIN d \cup {key} |-> IF x = key THEN v ELSE d[x]]

EmptyDict == [x \in {} |-> None]

MinOf(S) == CHOOSE x \in S : \A y \in S : x <= y
MaxOf(S) == CHOOSE x \in S : \A y \in S : x >= y

-----------------------------------------------------------------------------
(* calculate_average_purchase_price *)

\* lines 8-9 and 15-16: the rows of one pair, with the amount column
PairData(d, p) ==
    LET sel == SelectSeq(d, LAMBDA r : r.pair = p)
    IN  [i \in 1..Len(sel) |->
            [pair |-> sel[i].pair, side |-> sel[i].side, qty |-> sel[i].qty,
             price |-> sel[i].price, amount |-> sel[i].qty * sel[i].price]]

\* Consume with the lots taken from the back of the queue
RECURSIVE ConsumeFromBack(_, _)
ConsumeFromBack(bs, sell_qty) ==
    IF sell_qty > 0 /\ Len(bs) > 0
    THEN LET n == Len(bs)
         IN  IF bs[n].quantity <= sell_qty
             THEN ConsumeFromBack(SubSeq(bs, 1, n - 1), sell_qty - bs[n].quantity)
             ELSE SubSeq(bs, 1, n - 1)
                  \o <<[quantity |-> bs[n].quantity - sell_qty,
                        price    |-> bs[n].price,
                        amount   |-> (bs[n].quantity - sell_qty) * bs[n].price]>>
    ELSE bs

\* Consume with < for <= at line 38: a lot sold exactly is left at 0
RECURSIVE ConsumeStrict(_, _)
ConsumeStrict(bs, sell_qty) ==
    IF sell_qty > 0 /\ Len(bs) > 0
    THEN IF bs[1].quantity < sell_qty
         THEN ConsumeStrict(Tail(bs), sell_qty - bs[1].quantity)
         ELSE <<[quantity |-> bs[1].quantity - sell_qty,
                 price    |-> bs[1].price,
                 amount   |-> (bs[1].quantity - sell_qty) * bs[1].price]>>
              \o Tail(bs)
    ELSE bs

\* Consume without the loop: a sell stops after the first lot
ConsumeOneLot(bs, sell_qty) ==
    IF sell_qty > 0 /\ Len(bs) > 0
    THEN IF bs[1].quantity <= sell_qty
         THEN Tail(bs)
         ELSE <<[quantity |-> bs[1].quantity - sell_qty,
                 price    |-> bs[1].price,
                 amount   |-> (bs[1].quantity - sell_qty) * bs[1].price]>>
              \o Tail(bs)
    ELSE bs

\* Consume without line 45: the amount of a lot sold in part is not recomputed
RECURSIVE ConsumeStaleAmount(_, _)
ConsumeStaleAmount(bs, sell_qty) ==
    IF sell_qty > 0 /\ Len(bs) > 0
    THEN IF bs[1].quantity <= sell_qty
         THEN ConsumeStaleAmount(Tail(bs), sell_qty - bs[1].quantity)
         ELSE <<[quantity |-> bs[1].quantity - sell_qty,
                 price    |-> bs[1].price,
                 amount   |-> bs[1].amount]>>
              \o Tail(bs)
    ELSE bs

\* lines 35-46: the while loop of a sell; i stays 0, so the lot looked at is
\* always the front one
RECURSIVE Consume(_, _)
Consume(bs, sell_qty) ==
    IF sell_qty > 0 /\ Len(bs) > 0
    THEN IF bs[1].quantity <= sell_qty
         THEN Consume(Tail(bs), sell_qty - bs[1].quantity)
         ELSE <<[quantity |-> bs[1].quantity - sell_qty,
                 price    |-> bs[1].price,
                 amount   |-> (bs[1].quantity - sell_qty) * bs[1].price]>>
              \o Tail(bs)
    ELSE bs

\* Summary with the sides of lines 53-54 compared without .lower()
SummaryCaseSensitive(bs, pd) ==
    LET remaining_total_qty    == SumQty(bs)
        remaining_total_amount == SumAmount(bs)
        average_price ==
            IF remaining_total_qty > 0
            THEN RoundQuot(remaining_total_amount, remaining_total_qty,
                           PriceUnit, PriceDigits)
            ELSE 0
        buy_data  == SelectSeq(pd, LAMBDA r : r.side = "buy")
        sell_data == SelectSeq(pd, LAMBDA r : r.side = "sell")
        prices    == {pd[i].price : i \in 1..Len(pd)}
    IN  [average_purchase_price  |-> average_price,
         total_purchase_quantity |-> Round(SumQty(bs), QtyUnit, QtyDigits),
         total_purchase_amount   |-> Round(SumAmount(bs), AmountUnit, PriceDigits),
         purchase_count          |-> Len(buy_data),
         sell_count              |-> Len(sell_data),
         total_transactions      |-> Len(pd),
         min_price               |-> Round(MinOf(prices), PriceUnit, PriceDigits),
         max_price               |-> Round(MaxOf(prices), PriceUnit, PriceDigits),
         current_holdings        |-> Round(remaining_total_qty, QtyUnit, QtyDigits)]

\* lines 49-66: the summary of one pair
Summary(bs, pd) ==
    LET remaining_total_qty    == SumQty(bs)
        remaining_total_amount == SumAmount(bs)
        average_price ==
            IF remaining_total_qty > 0
            THEN RoundQuot(remaining_total_amount, remaining_total_qty,
                           PriceUnit, PriceDigits)
            ELSE 0
        buy_data  == SelectSeq(pd, LAMBDA r : Lower(r.side) = "buy")
        sell_data == SelectSeq(pd, LAMBDA r : Lower(r.side) = "sell")
        prices    == {pd[i].price : i \in 1..Len(pd)}
    IN  [average_purchase_price  |-> average_price,
         total_purchase_quantity |-> Round(SumQty(bs), QtyUnit, QtyDigits),
         total_purchase_amount   |-> Round(SumAmount(bs), AmountUnit, PriceDigits),
         purchase_count          |-> Len(buy_data),
         sell_count              |-> Len(sell_data),
         total_transactions      |-> Len(pd),
         min_price               |-> Round(MinOf(prices), PriceUnit, PriceDigits),
         max_price               |-> Round(MaxOf(prices), PriceUnit, PriceDigits),
         current_holdings        |-> Round(remaining_total_qty, QtyUnit, QtyDigits)]

\* main lines 137-141, calculate lines 8-12: a file was uploaded and parsed
Upload ==
    /\ pc = "idle"
    /\ pairs' = Unique(PairColumn(df))
    /\ results' = EmptyDict
    /\ k' = 1
    /\ pc' = "pairs"
    /\ UNCHANGED <<df, pair_data, idx, buys, remaining_quantity,
                   current_prices, f, error, summary_df>>

\* lines 14-19: the next pair
BeginPair ==
    /\ pc = "pairs"
    /\ k <= Len(pairs)
    /\ pair_data' = PairData(df, pairs[k])
    /\ buys' = <<>>
    /\ remaining_quantity' = 0
    /\ idx' = 1
    /\ pc' = "rows"
    /\ UNCHANGED <<df, pairs, k, results, current_prices, f, error, summary_df>>

\* ProcessRow with a check of the row: a side that is not buy or sell, a
\* price that is not positive and a negative quantity raise
ProcessRowValidating ==
    /\ pc = "rows"
    /\ idx <= Len(pair_data)
    /\ LET row == pair_data[idx]
           qty == row.qty
           side == Lower(row.side)
       IN  IF row.side = NaN \/ side \notin {"buy", "sell"}
              \/ row.price <= 0 \/ qty < 0
           THEN /\ error' = IF row.side = NaN THEN "AttributeError"
                                              ELSE "InvalidTradeRow"
                /\ results' = EmptyDict
                /\ pc' = "done"
                /\ UNCHANGED <<buys, remaining_quantity, idx>>
           ELSE /\ IF side = "buy"
                   THEN /\ buys' = Append(buys, [quantity |-> qty,
                                                 price |-> row.price,
                                                 amount |-> row.amount])
                        /\ remaining_quantity' = remaining_quantity + qty
                   ELSE /\ remaining_quantity' = remaining_quantity - qty
                        /\ buys' = Consume(buys, qty)
                /\ idx' = idx + 1
                /\ UNCHANGED <<error, results, pc>>
    /\ UNCHANGED <<df, pairs, k, pair_data, current_prices, f, summary_df>>

\* lines 21-46: one row.  A missing side is a float, .lower() raises
\* AttributeError, which main catches at lines 228-229: nothing is returned.
ProcessRow ==
    /\ pc = "rows"
    /\ idx <= Len(pair_data)
    /\ LET row == pair_data[idx]
           qty == row.qty
           side == Lower(row.side)
       IN  IF row.side = NaN
           THEN /\ error' = "AttributeError"
                /\ results' = EmptyDict
                /\ pc' = "done"
                /\ UNCHANGED <<buys, remaining_quantity, idx>>
           ELSE /\ IF side = "buy"
                   THEN /\ buys' = Append(buys, [quantity |-> qty,
                                                 price |-> row.price,
                                                 amount |-> row.amount])
                        /\ remaining_quantity' = remaining_quantity + qty
                   ELSE IF side = "sell"
                   THEN /\ remaining_quantity' = remaining_quantity - qty
                        /\ buys' = Consume(buys, qty)
                   ELSE UNCHANGED <<buys, remaining_quantity>>
                /\ idx' = idx + 1
                /\ UNCHANGED <<error, results, pc>>
    /\ UNCHANGED <<df, pairs, k, pair_data, current_prices, f, summary_df>>

\* lines 48-66 (and 68 after the last pair): the pair's summary
FinishPair ==
    /\ pc = "rows"
    /\ idx > Len(pair_data)
    /\ results' = Put(results, pairs[k], Summary(buys, pair_data))
    /\ k' = k + 1
    /\ pc' = IF k + 1 > Len(pairs) THEN "profit" ELSE "pairs"
    /\ UNCHANGED <<df, pairs, pair_data, idx, buys, remaining_quantity,
                   current_prices, f, error, summary_df>>

-----------------------------------------------------------------------------
(* main *)

\* lines 144-148: profit of every pair
ComputeProfit ==
    /\ pc = "profit"
    /\ results' = [p \in DOMAIN results |->
            LET stats     == results[p]
                purchase  == Get(stats, "total_purchase_amount", 0)
                valuation == Get(stats, "valuation", 0)
                profit    == valuation - purchase
            IN  Put(stats, "profit", Round(profit, AmountUnit, PriceDigits))]
    /\ current_prices' = EmptyDict
    /\ f' = 1
    /\ pc' = "fetch"
    /\ UNCHANGED <<df, pairs, k, pair_data, idx, buys, remaining_quantity,
                   error, summary_df>>

\* what the ticker request of one pair can end in: an exception of any kind
\* (None) or a last price, counted in 1/PriceUnit
Quotes == {150005, 250000}
FetchOutcomes == {None} \cup {Some(q) : q \in Quotes}

\* FetchPrice without the try/except of lines 119-125: a failed request
\* reaches the except clause of main
FetchPriceUncaught ==
    /\ pc = "fetch"
    /\ f <= Len(pairs)
    /\ \E outcome \in FetchOutcomes :
           IF outcome = None
           THEN /\ error' = "RequestException"
                /\ pc' = "done"
                /\ UNCHANGED <<current_prices, f>>
           ELSE /\ current_prices' = Put(current_prices, pairs[f], outcome)
                /\ f' = f + 1
                /\ pc' = IF f + 1 > Len(pairs) THEN "valuation" ELSE "fetch"
                /\ UNCHANGED error
    /\ UNCHANGED <<df, pairs, k, pair_data, idx, buys, remaining_quantity,
                   results, summary_df>>

\* fetch_current_prices lines 118-125: one pair
FetchPrice ==
    /\ pc = "fetch"
    /\ f <= Len(pairs)
    /\ \E outcome \in FetchOutcomes :
           current_prices' = Put(current_prices, pairs[f], outcome)
    /\ f' = f + 1
    /\ pc' = IF f + 1 > Len(pairs) THEN "valuation" ELSE "fetch"
    /\ UNCHANGED <<df, pairs, k, pair_data, idx, buys, remaining_quantity,
                   results, error, summary_df>>

\* lines 154-161: current price and valuation of every pair
ComputeValuation ==
    /\ pc = "valuation"
    /\ results' = [p \in DOMAIN results |->
            LET stats         == results[p]
                current_price == Get(current_prices, p, None)
            IN  IF current_price # None
                THEN Put(Put(stats, "current_price",
                             Some(Round(current_price[1], PriceUnit, PriceDigits))),
                         "valuation",
                         Round(current_price[1] * stats.current_holdings,
                               AmountUnit, PriceDigits))
                ELSE Put(Put(stats, "current_price", None), "valuation", 0)]
    /\ pc' = "render"
    /\ UNCHANGED <<df, pairs, k, pair_data, idx, buys, remaining_quantity,
                   current_prices, f, error, summary_df>>

\* create_summary_dataframe lines 70-86, called at line 214: one table row per
\* key of results; a price that is None or 0 is shown as failed
create_summary_dataframe(res, order) ==
    [i \in 1..Len(order) |->
        LET stats == res[order[i]]
            cp    == Get(stats, "current_price", None)
        IN  [pair          |-> Upper(order[i]),
             purchase_count |-> stats.purchase_count,
             sell_count    |-> stats.sell_count,
             current_price |-> IF cp # None /\ cp[1] # 0
                               THEN Some(Round(cp[1], PriceUnit, 0))
                               ELSE None,
             valuation     |-> Round(Get(stats, "valuation", 0), AmountUnit, 0)]]

\* lines 164-226: the page is rendered
Render ==
    /\ pc = "render"
    /\ summary_df' = create_summary_dataframe(results, pairs)
    /\ pc' = "done"
    /\ UNCHANGED <<df, pairs, k, pair_data, idx, buys, remaining_quantity,
                   results, current_prices, f, error>>

Next ==
    \/ Upload
    \/ BeginPair
    \/ ProcessRow
    \/ FinishPair
    \/ ComputeProfit
    \/ FetchPrice
    \/ ComputeValuation
    \/ Render

-----------------------------------------------------------------------------
(* Inputs *)

Tables(Rows) == UNION {[1..n -> Rows] : n \in 1..MaxRows}

InitWith(Rows) ==
    /\ df \in Tables(Rows)
    /\ pc = "idle"
    /\ pairs = <<>>
    /\ k = 1
    /\ pair_data = <<>>
    /\ idx = 1
    /\ buys = <<>>
    /\ remaining_quantity = 0
    /\ results = EmptyDict
    /\ current_prices = EmptyDict
    /\ f = 1
    /\ error = "none"
    /\ summary_df = <<>>

\* one pair, buys and sells of 0, 0.5, 1.0 or 1.5 at 100, 200 or 100.005 yen
FifoRows ==
    [pair : {"btc_jpy"}, side : {"buy", "sell"}, qty : {0, 5, 10, 15},
     price : {100000, 200000, 100005}]

Init == InitWith(FifoRows)
Spec == Init /\ [][Next]_vars

\* two pairs, sides in any letter case, unrecognized sides
SideRows ==
    [pair : {"btc_jpy", "eth_jpy"}, side : {"Buy", "BUY", "sell", "Sell", "Hold"},
     qty : {5, 10}, price : {100000}]

InitSides == InitWith(SideRows)
SpecSides == InitSides /\ [][Next]_vars

\* rows a validating engine would reject
InvalidRows ==
    [pair : {"btc_jpy"}, side : {"buy", "sell", "Hold", NaN}, qty : {-5, 10},
     price : {0, 100000}]

InitInvalid == InitWith(InvalidRows)
SpecInvalid == InitInvalid /\ [][Next]_vars

\* pairs that differ in letter case only, and another pair
PairRows ==
    [pair : {"btc_jpy", "BTC_JPY", "eth_jpy"}, side : {"buy", "sell"},
     qty : {5, 10}, price : {100000}]

InitPairs == InitWith(PairRows)
SpecPairs == InitPairs /\ [][Next]_vars

TypeOK ==
    /\ pc \in {"idle", "pairs", "rows", "profit", "fetch", "valuation",
               "render", "done"}
    /\ error \in {"none", "AttributeError"}
    /\ k \in 1..(MaxRows + 1)
    /\ idx \in 1..(MaxRows + 1)
    /\ f \in 1..(MaxRows + 1)
    /\ Len(buys) <= MaxRows

-----------------------------------------------------------------------------
(* Vocabulary of the properties *)

\* the rows of the current pair that the loop of line 21 has been through
Processed == SubSeq(pair_data, 1, idx - 1)

BuyRows(rows)  == SelectSeq(rows, LAMBDA r : Lower(r.side) = "buy")

RECURSIVE QtyTotal(_, _)
QtyTotal(rows, side) ==
    IF rows = <<>> THEN 0
    ELSE (IF Lower(rows[1].side) = side THEN rows[1].qty ELSE 0)
         + QtyTotal(Tail(rows), side)

PositiveQuantities == \A i \in 1..Len(pair_data) : pair_data[i].qty > 0

\* sum of the lot quantities
H == SumQty(buys)

Max(a, b) == IF a >= b THEN a ELSE b

\* the loop over the rows of pairs[k-1] has ended and its summary is stored;
\* buys and pair_data are still those of that pair
Summarised == pc # "rows" /\ k > 1 /\ error = "none"
LastPair == pairs[k - 1]

\* ProcessRow has handled row idx without raising
RowStep == pc = "rows" /\ pc' = "rows" /\ idx' = idx + 1

-----------------------------------------------------------------------------
(* C1 *)

\* bs is a suffix of the buy rows B, in order: each lot has the price of its
\* buy, the lots behind the front have the quantity of their buy, the front
\* lot has a positive quantity of at most that of its buy
IsFifoSuffix(bs, B) ==
    /\ Len(bs) <= Len(B)
    /\ LET d == Len(B) - Len(bs)
       IN  \A j \in 1..Len(bs) :
              /\ bs[j].price = B[d + j].price
              /\ j > 1 => bs[j].quantity = B[d + j].qty
              /\ j = 1 => bs[j].quantity > 0 /\ bs[j].quantity <= B[d + j].qty

\* new is old with lots removed from the front and a front lot that is at
\* most smaller
RemovedFromFront(old, new) ==
    /\ Len(new) <= Len(old)
    /\ LET n == Len(old) - Len(new)
       IN  \A j \in 1..Len(new) :
              /\ new[j].price = old[n + j].price
              /\ j > 1 => new[j] = old[n + j]
              /\ j = 1 => new[j].quantity <= old[n + j].quantity

C1_State ==
    (pc = "rows" /\ PositiveQuantities)
        => IsFifoSuffix(buys, BuyRows(Processed))

C1_Step ==
    (RowStep /\ PositiveQuantities /\ Lower(pair_data[idx].side) = "sell")
        => RemovedFromFront(buys, buys')

\* C1: with positive quantities, after every trade the lot queue is a
\* contiguous suffix of the instrument's Buy trades in input order; only the
\* front lot can hold less than its buy quantity, every lot keeps its price,
\* and a Sell only removes lots from the front.
C1_FifoSuffix == [](C1_State) /\ [][C1_Step]_vars

\* a Sell has removed the oldest of two lots and part of the second
C1_Witness ==
    /\ pc = "rows"
    /\ PositiveQuantities
    /\ Len(BuyRows(Processed)) = 2
    /\ Len(buys) = 1
    /\ buys[1].quantity < BuyRows(Processed)[2].qty

-----------------------------------------------------------------------------
(* C2 *)

SellsExceedBuys == QtyTotal(pair_data, "sell") > QtyTotal(pair_data, "buy")

\* from every row on, the sells that remain total at least the buys that remain
SellsCoverEverySuffix ==
    \A s \in 1..Len(pair_data) :
        LET rest == SubSeq(pair_data, s, Len(pair_data))
        IN  QtyTotal(rest, "sell") >= QtyTotal(rest, "buy")

\* C2 as stated: if the Sell quantities of an instrument total more than its
\* Buy quantities, the final lot queue is empty and current_holdings is 0,
\* whatever the order of the trades.  Stated for positive quantities, where
\* no lot of quantity 0 is ever queued.
C2_Original ==
    (Summarised /\ PositiveQuantities /\ SellsExceedBuys)
        => /\ buys = <<>>
           /\ results[LastPair].current_holdings = 0

\* C2 amended: if the Sell quantities total more than the Buy quantities and
\* cover the Buy quantities in every suffix of the trades, then no error is
\* raised, current_holdings is 0 and no lot of the final queue has a positive
\* quantity; the queue is empty when all quantities are positive.
C2_OversoldAtEnd ==
    (pc # "rows" /\ k > 1 /\ SellsExceedBuys /\ SellsCoverEverySuffix)
        => /\ error = "none"
           /\ results[LastPair].current_holdings = 0
           /\ \A j \in 1..Len(buys) : buys[j].quantity = 0
           /\ PositiveQuantities => buys = <<>>

\* a Sell of more than the holdings, a Buy, and a Sell of exactly that Buy
C2_Witness ==
    /\ Summarised
    /\ SellsExceedBuys /\ SellsCoverEverySuffix /\ PositiveQuantities
    /\ Len(pair_data) = 3
    /\ pair_data[2].side = "buy"
    /\ buys = <<>>

-----------------------------------------------------------------------------
(* C3 *)

\* C3 as stated: with non-negative quantities every lot in the queue has a
\* quantity greater than 0 after each trade.
C3_Original ==
    (\A i \in 1..Len(pair_data) : pair_data[i].qty >= 0)
        => \A j \in 1..Len(buys) : buys[j].quantity > 0

-----------------------------------------------------------------------------
(* C9 *)

C9_Step ==
    (RowStep /\ PositiveQuantities)
        => LET row == pair_data[idx]
           IN  /\ Lower(row.side) = "buy"  => SumQty(buys') = H + row.qty
               /\ Lower(row.side) = "sell" => SumQty(buys') = Max(0, H - row.qty)

C9_State ==
    (Summarised /\ PositiveQuantities)
        => /\ results[LastPair].total_purchase_quantity = H
           /\ results[LastPair].current_holdings = H
           /\ H = 0 => results[LastPair].average_purchase_price = 0

\* C9: with positive quantities the sum H of the lot quantities becomes H + q
\* on a Buy of q and max(0, H - q) on a Sell of q; total_purchase_quantity and
\* current_holdings are the final H, and average_purchase_price is 0 when the
\* final H is 0.
C9_Holdings == [](C9_State) /\ [][C9_Step]_vars

\* a Sell of more than the holdings was followed by a Buy, which is held in full
C9_Witness ==
    /\ Summarised
    /\ PositiveQuantities
    /\ Len(pair_data) = 3
    /\ pair_data[1].side = "buy" /\ pair_data[2].side = "sell"
    /\ pair_data[3].side = "buy"
    /\ pair_data[2].qty > pair_data[1].qty
    /\ H = pair_data[3].qty
    /\ results[LastPair].current_holdings = pair_data[3].qty

-----------------------------------------------------------------------------
(* C10 *)

RECURSIVE SumQtyTimesPrice(_)
SumQtyTimesPrice(bs) ==
    IF bs = <<>> THEN 0
    ELSE bs[1].quantity * bs[1].price + SumQtyTimesPrice(Tail(bs))

\* Buy 1.0 @ 100, Buy 1.0 @ 200, Sell 1.5
C10_Example ==
    <<[pair |-> "btc_jpy", side |-> "buy",  qty |-> 10, price |-> 100000],
      [pair |-> "btc_jpy", side |-> "buy",  qty |-> 10, price |-> 200000],
      [pair |-> "btc_jpy", side |-> "sell", qty |-> 15, price |-> 200000]>>

\* C10: after every trade each lot has amount = quantity * price, the
\* reported total_purchase_amount is the sum of quantity * price over the
\* surviving lots (rounded to 2 decimals, as every amount reported), and
\* Buy 1.0 @ 100, Buy 1.0 @ 200, Sell 1.5 leaves one lot 0.5 @ 200 with
\* total_purchase_amount 100 and average_purchase_price 200.
C10_Amounts ==
    /\ pc = "rows" =>
          \A j \in 1..Len(buys) : buys[j].amount = buys[j].quantity * buys[j].price
    /\ Summarised =>
          results[LastPair].total_purchase_amount
              = Round(SumQtyTimesPrice(buys), AmountUnit, PriceDigits)
    /\ (Summarised /\ df = C10_Example) =>
          /\ Len(buys) = 1
          /\ buys[1].quantity = 5 /\ buys[1].price = 200000
          /\ results[LastPair].total_purchase_amount = 100 * AmountUnit
          /\ results[LastPair].average_purchase_price = 200 * PriceUnit

\* the example has been summarised
C10_Witness ==
    /\ Summarised
    /\ df = C10_Example
    /\ results[LastPair].total_purchase_amount = 100 * AmountUnit

-----------------------------------------------------------------------------
(* C6 *)

RowsOf(p) == {i \in 1..Len(df) : df[i].pair = p}
RowsOfSide(p, side) == {i \in RowsOf(p) : Lower(df[i].side) = side}
RowsOfOtherSide(p) == {i \in RowsOf(p) : Lower(df[i].side) \notin {"buy", "sell"}}

C6_Step ==
    (RowStep /\ Lower(pair_data[idx].side) \notin {"buy", "sell"})
        => buys' = buys

C6_State ==
    \A p \in DOMAIN results :
        /\ results[p].total_transactions = Cardinality(RowsOf(p))
        /\ results[p].purchase_count = Cardinality(RowsOfSide(p, "buy"))
        /\ results[p].sell_count = Cardinality(RowsOfSide(p, "sell"))
        /\ results[p].total_transactions
              = results[p].purchase_count + results[p].sell_count
                + Cardinality(RowsOfOtherSide(p))

\* C6: a trade whose side is neither buy nor sell in any letter case leaves
\* the lot queue unchanged and is counted in total_transactions;
\* total_transactions is the number of rows of the instrument, purchase_count
\* and sell_count the numbers of its Buy and Sell rows in any letter case.
C6_Counts == [](C6_State) /\ [][C6_Step]_vars

\* an instrument with a Buy in capitals, a Sell and an unrecognized side
C6_Witness ==
    /\ pc = "done"
    /\ \E p \in DOMAIN results :
          /\ \E i \in RowsOf(p) : df[i].side = "BUY"
          /\ \E i \in RowsOf(p) : df[i].side = "Sell"
          /\ RowsOfOtherSide(p) # {}
          /\ results[p].total_transactions = 3
          /\ results[p].purchase_count = 1
          /\ results[p].sell_count = 1

-----------------------------------------------------------------------------
(* C4 *)

\* C4 as stated: the fetch of every instrument is over before its valuation
\* is computed, and the profit attached to a summary is the valuation attached
\* to it minus its total_purchase_amount.
C4_Original ==
    /\ pc \in {"render", "done"} /\ error = "none"
          => \A p \in DOMAIN results : p \in DOMAIN current_prices
    /\ pc = "done" /\ error = "none"
          => \A p \in DOMAIN results :
                results[p].profit
                    = results[p].valuation - results[p].total_purchase_amount

-----------------------------------------------------------------------------
(* C5 *)

\* C5 as stated: trades whose instrument identifiers differ in letter case
\* only are one instrument, with one entry in the result mapping that counts
\* all of them.
C5_Original ==
    pc = "done" /\ error = "none"
        => /\ Cardinality(DOMAIN results)
                = Cardinality({Lower(df[i].pair) : i \in 1..Len(df)})
           /\ \A p \in DOMAIN results :
                 results[p].total_transactions
                     = Cardinality({i \in 1..Len(df) :
                                       Lower(df[i].pair) = Lower(p)})

-----------------------------------------------------------------------------
(* C7 *)

C7_State ==
    /\ error = "none"
    /\ pc \in {"render", "done"} =>
          /\ DOMAIN current_prices = DOMAIN results
          /\ \A p \in DOMAIN results :
                IF current_prices[p] = None
                THEN /\ results[p].current_price = None
                     /\ results[p].valuation = 0
                ELSE /\ results[p].current_price
                           = Some(Round(current_prices[p][1], PriceUnit, PriceDigits))
                     /\ results[p].valuation
                           = Round(current_prices[p][1] * results[p].current_holdings,
                                   AmountUnit, PriceDigits)

C7_Step ==
    pc = "fetch" =>
        /\ pc' \in {"fetch", "valuation"}
        /\ \A p \in DOMAIN current_prices :
              p \in DOMAIN current_prices' /\ current_prices'[p] = current_prices[p]

\* C7: a failed price fetch gives its instrument current_price None and
\* valuation 0, is never reported as an error and leaves the prices of the
\* other instruments alone: each of them gets its own fetched price (rounded
\* to 2 decimals) and valuation = round(price * current_holdings, 2),
\* whichever fetches fail.
C7_Localized == [](C7_State) /\ [][C7_Step]_vars

\* one instrument's fetch failed, another one's, fetched later, did not
C7_Witness ==
    /\ pc = "done"
    /\ Len(pairs) >= 2
    /\ current_prices[pairs[1]] = None
    /\ results[pairs[1]].current_holdings > 0
    /\ results[pairs[1]].valuation = 0
    /\ current_prices[pairs[2]] # None
    /\ results[pairs[2]].valuation > 0

-----------------------------------------------------------------------------
(* C8 *)

MissingSide(r) == r.side = NaN
UnrecognizedSide(r) == ~MissingSide(r) /\ Lower(r.side) \notin {"buy", "sell"}
InvalidRow(r) ==
    r.price <= 0 \/ r.qty < 0 \/ UnrecognizedSide(r) \/ MissingSide(r)

Returned == pc \in {"profit", "fetch", "valuation", "render", "done"}

\* C8 as stated: when the input has a trade with a non-positive price, a
\* negative quantity or an unrecognized or missing side, the engine fails
\* with InvalidTradeRow and produces no summary.
C8_Original ==
    (Returned /\ \E i \in 1..Len(df) : InvalidRow(df[i]))
        => error = "InvalidTradeRow" /\ DOMAIN results = {}

\* C8 amended: the engine never fails with InvalidTradeRow.  Trades with a
\* non-positive price, a negative quantity or an unrecognized side raise no
\* error and every instrument gets its summary; only a trade with a missing
\* side makes the engine fail (AttributeError), and then no summary is
\* produced.
C8_Permissive ==
    /\ error \in {"none", "AttributeError"}
    /\ error = "AttributeError" =>
          /\ pc = "done"
          /\ \E i \in 1..Len(df) : MissingSide(df[i])
          /\ DOMAIN results = {}
    /\ (Returned /\ \A i \in 1..Len(df) : ~MissingSide(df[i])) =>
          /\ error = "none"
          /\ DOMAIN results = {df[i].pair : i \in 1..Len(df)}
    /\ (pc = "done" /\ \E i \in 1..Len(df) : MissingSide(df[i])) =>
          error = "AttributeError"

\* a table with a price of 0, a negative quantity and an unrecognized side was
\* summarised without an error
C8_Witness ==
    /\ pc = "done"
    /\ error = "none"
    /\ \E i \in 1..Len(df) : df[i].price <= 0
    /\ \E i \in 1..Len(df) : df[i].qty < 0
    /\ \E i \in 1..Len(df) : UnrecognizedSide(df[i])
    /\ DOMAIN results = {"btc_jpy"}
    /\ Len(summary_df) = 1
====
